---- MODULE Spec2Model ----
(***************************************************************************)
(* A model of src/pomodoro.py: the command-line Pomodoro timer.            *)
(*                                                                         *)
(* main() parses the arguments, installs the SIGINT handler, probes the    *)
(* sounds directory and then loops for ever: a Work session, then a Long   *)
(* or a Short Break.  run_timer() runs one session against the wall clock. *)
(*                                                                         *)
(* Time is counted in units of 1/Res second.  The clock is re-based to 0   *)
(* each time run_timer() is entered: the code only ever reads differences  *)
(* between time.time() and end_time.  The --debug flag only adds trace     *)
(* output and is left out.                                                 *)
(***************************************************************************)
EXTENDS Integers, Sequences, FiniteSets, TLC

(* ------------------------------ bounds -------------------------------- *)
\* Clock units per second.
Res == 2
\* Longest overshoot of one time.sleep(1), in clock units, on a busy host.
MaxLag == 1
\* Longest delay, in clock units, between the loop test of line 204 and the
\* clock read of line 205 on a busy host (a suspended process, a clock step).
MaxStall == 3
\* Largest --work/--short-break/--long-break/--pomodoros value tried.
MaxMinutes == 2
MaxCycle == 3
\* The main loop is followed for this many Work sessions.
MaxPomodoros == 4
\* format_time is applied to every number of seconds from 0 to this one.
MaxFormatSeconds == 6000

(* ------------------------- program constants -------------------------- *)
SecondsPerMinute == 60
BarWidth == 30
Bell == "\\a"

Kinds == {"Work", "Short Break", "Long Break"}
Slots == {"work_start", "work_end", "short_break_start", "short_break_end",
          "long_break_start", "long_break_end"}
Players == {"aplay", "play"}
Platforms == {"darwin", "linux", "nt", "other"}

(* ------------------------------ inputs -------------------------------- *)
Minutes == -1 .. MaxMinutes
Cycles == -MaxCycle .. MaxCycle

MkArgs(w, s, l, n, m) ==
    [work |-> w, short_break |-> s, long_break |-> l, pomodoros |-> n, mute |-> m]

MkEnv(p, t, f, a, b) ==
    [platform |-> p, notifier |-> t, sound_files |-> f, players |-> a, busy |-> b]

\* A quiet Linux host with notify-send, no sounds directory and no player.
PlainHost(b) == MkEnv("linux", TRUE, {}, {}, b)

\* Command lines: any --pomodoros with one-minute sessions, and any
\* combination of durations with the cycle length fixed.
CycleArgs == {MkArgs(1, 1, 1, n, FALSE) : n \in Cycles}
DurationArgs == {MkArgs(w, s, l, 2, FALSE) : w \in Minutes, s \in Minutes, l \in Minutes}
BaseArgs == {MkArgs(1, 1, 1, 2, m) : m \in BOOLEAN}

AssetSets == {{}, Slots} \cup {{s} : s \in Slots} \cup {Slots \ {s} : s \in Slots}
SoundHosts == {MkEnv("linux", TRUE, f, a, FALSE) : f \in AssetSets, a \in SUBSET Players}
NotifyHosts == {MkEnv(p, t, {}, {}, FALSE) : p \in Platforms, t \in BOOLEAN}

\* The runs explored: the cycle and the durations on an idle host, the notifier
\* on every kind of host, and the clock of a busy host.
Runs == ((CycleArgs \cup DurationArgs) \X {PlainHost(FALSE)})
        \cup (BaseArgs \X (SoundHosts \cup NotifyHosts))
        \cup ({MkArgs(1, 1, 1, 1, FALSE)} \X {PlainHost(TRUE)})

VARIABLES
    args,            \* the parsed command line
    env,             \* the host: platform, notifier tool, assets, players, load
    MUTE_SOUNDS,     \* global, line 41
    SOUND,           \* globals SOUND_*, lines 44-49: slot -> Bell or asset
    handler,         \* disposition of SIGINT
    pc,              \* where main() is
    pomodoro_count,  \* local of main, line 295
    session_type,    \* run_timer parameter
    duration_seconds,\* run_timer local, line 184
    end_time,        \* run_timer local, line 185 (clock units)
    now,             \* time.time() (clock units since run_timer was entered)
    remaining_seconds, \* run_timer local, line 206
    frames,          \* display_timer calls of the current session
    first_frame,     \* remaining_seconds of the session's first frame
    by_one,          \* the frames so far are duration, duration-1, ... one apart
    bar,             \* what display_timer last drew: filled cells, percentage
    works_done,      \* Work sessions that ran to their completed message
    sessions,        \* the sessions run_timer was entered for, in order: the kind,
                     \* and the Work sessions completed before it
    events,          \* notifier events <<kind, "start"|"end">>, in order
    notify_calls,    \* calls of send_notification
    player_used,     \* an external player was run at least once
    last_cue,        \* what the last play_sound call did
    stopped_msgs,    \* "... stopped." messages printed
    exception,       \* the exception that ended the process, or "none"
    exit_status,     \* "none" while running, then "0" or "1"
    cancelled_at,    \* what had happened when SIGINT was handled
    sound_calls,     \* calls of play_sound
    sigint           \* what became of the last SIGINT sent since line 250:
                     \* "none", "handled" or "dropped"

vars == <<args, env, MUTE_SOUNDS, SOUND, handler, pc, pomodoro_count,
          session_type, duration_seconds, end_time, now, remaining_seconds,
          frames, first_frame, by_one, bar, works_done, sessions, events,
          notify_calls,
          player_used, last_cue, stopped_msgs, exception, exit_status,
          cancelled_at, sound_calls, sigint>>

config == <<args, env>>
timer == <<session_type, duration_seconds, end_time, now, remaining_seconds,
           frames, first_frame, by_one, bar>>
notifier == <<events, notify_calls, player_used, last_cue, sound_calls>>
ending == <<stopped_msgs, exception, exit_status, cancelled_at, sigint>>

\* Nothing drawn yet.
NoBar == [filled |-> 0, percent |-> 0, time |-> ""]
NoCue == [player |-> "none", file |-> "none", bell |-> FALSE, raised |-> FALSE]
NoSnapshot == [taken |-> FALSE, pc |-> "none", sessions |-> 0, events |-> 0,
               frames |-> 0, left |-> 0, count |-> 0]

Init ==
    /\ \E r \in Runs : args = r[1] /\ env = r[2]
    /\ MUTE_SOUNDS = FALSE
    /\ SOUND = [s \in Slots |-> Bell]
    /\ handler = "default"
    /\ pc = "parse"
    /\ pomodoro_count = 0
    /\ session_type = "none"
    /\ duration_seconds = 0
    /\ end_time = 0
    /\ now = 0
    /\ remaining_seconds = 0
    /\ frames = 0
    /\ first_frame = 0
    /\ by_one = TRUE
    /\ bar = NoBar
    /\ works_done = 0
    /\ sessions = <<>>
    /\ events = <<>>
    /\ notify_calls = 0
    /\ player_used = FALSE
    /\ last_cue = NoCue
    /\ stopped_msgs = 0
    /\ exception = "none"
    /\ exit_status = "none"
    /\ cancelled_at = NoSnapshot
    /\ sound_calls = 0
    /\ sigint = "none"


(* --------------------------- pure functions --------------------------- *)
\* Python's int(a / b) for b > 0: the quotient truncated toward zero.
TruncDiv(a, b) == IF a >= 0 THEN a \div b ELSE -((-a) \div b)

\* Python's a % b for b # 0: the result takes the sign of the divisor.
PyMod(a, b) == IF b > 0 THEN a % b ELSE -((-a) % (-b))

\* int(end_time - current_time), line 206, on a difference in clock units.
IntSeconds(units) == TruncDiv(units, Res)

\* The numeral without the zero fill (format specification d).
FormatUnpadded(n) == ToString(n)

\* The format specification 02d of line 157: the decimal numeral, sign
\* included, filled with zeros on the left to a width of two.
Format02d(n) == IF Len(ToString(n)) < 2 THEN "0" \o ToString(n) ELSE ToString(n)

\* format_time, lines 154-157: divmod(seconds, 60), each part formatted 02d.
format_time(seconds) == Format02d(seconds \div 60) \o ":" \o Format02d(seconds % 60)

\* display_timer, lines 171-178: the filled cells, the percentage label and
\* the time shown.
display_timer(remaining, total) ==
    [filled  |-> TruncDiv(BarWidth * (total - remaining), total),
     percent |-> TruncDiv((total - remaining) * 100, total),
     time    |-> format_time(remaining)]

\* The sound_type run_timer passes to play_sound, lines 195-200 and 222-227.
SlotOf(kind, edge) ==
    CASE kind = "Work"        -> IF edge = "start" THEN "work_start" ELSE "work_end"
      [] kind = "Short Break" -> IF edge = "start" THEN "short_break_start"
                                                   ELSE "short_break_end"
      [] kind = "Long Break"  -> IF edge = "start" THEN "long_break_start"
                                                   ELSE "long_break_end"

\* send_notification, lines 140-152: os.system never raises; subprocess.call
\* raises OSError when powershell cannot be started; no other platform is served.
send_notification_raises(host) == host.platform = "nt" /\ ~host.notifier

\* play_sound without the test of MUTE_SOUNDS of lines 57-59.
play_sound_unmuted(muted, sound, players, raises) ==
    IF sound = Bell THEN [NoCue EXCEPT !.bell = TRUE]
    ELSE IF "aplay" \in players
         THEN [player |-> "aplay", file |-> sound, bell |-> raises, raised |-> raises]
    ELSE IF "play" \in players
         THEN [player |-> "play", file |-> sound, bell |-> raises, raised |-> raises]
    ELSE [NoCue EXCEPT !.bell = TRUE]

\* play_sound, lines 51-94: what one call does.  `raises` is whether the
\* external player, if one is run, raises.
play_sound(muted, sound, players, raises) ==
    IF muted THEN NoCue
    ELSE IF sound = Bell THEN [NoCue EXCEPT !.bell = TRUE]
    ELSE IF "aplay" \in players
         THEN [player |-> "aplay", file |-> sound, bell |-> raises, raised |-> raises]
    ELSE IF "play" \in players
         THEN [player |-> "play", file |-> sound, bell |-> raises, raised |-> raises]
    ELSE [NoCue EXCEPT !.bell = TRUE]

\* The break chosen from the count as it was before line 301 incremented it.
BreakKindBeforeIncrement(count, pomodoros) ==
    IF PyMod(count - 1, pomodoros) = 0 THEN "Long Break" ELSE "Short Break"

\* main, lines 306-313: the break that follows a Work session.
BreakKind(count, pomodoros) ==
    IF PyMod(count, pomodoros) = 0 THEN "Long Break" ELSE "Short Break"

\* Lines 309 and 313 with the two durations exchanged.
BreakMinutesSwapped(kind) ==
    IF kind = "Long Break" THEN args.short_break ELSE args.long_break

BreakMinutes(kind) ==
    IF kind = "Long Break" THEN args.long_break ELSE args.short_break

\* A loop that goes back to line 299 after every session, skipping the break.
ReturnToWork(kind) == "work"

\* Where main goes on when run_timer returns: lines 303 -> 306, 309/313 -> 299.
ReturnTo(kind) == IF kind = "Work" THEN "break" ELSE "work"

\* The try blocks: run_timer's covers lines 204-227, main's lines 299-313.
InTimerTry(at) == at \in {"tick"}
InMainTry(at) == at \in {"work", "notify_start", "pause", "tick", "break"}

\* What the except clauses do with an exception raised at `at`: the stopped
\* messages they print and the exit status of the process.
Unwind(exc, at) ==
    IF exc = "KeyboardInterrupt" /\ InTimerTry(at) THEN [msgs |-> 1, status |-> "0"]
    ELSE IF exc = "KeyboardInterrupt" /\ InMainTry(at) THEN [msgs |-> 1, status |-> "0"]
    ELSE IF exc = "SystemExit" THEN [msgs |-> 0, status |-> "0"]
    ELSE [msgs |-> 0, status |-> "1"]

\* time.sleep(1) overshoots, and the process stalls, only on a busy host.
Lags == IF env.busy THEN 0 .. MaxLag ELSE {0}
Stalls == IF env.busy THEN 0 .. MaxStall ELSE {0}

(* ------------------------------ actions ------------------------------- *)
\* An exception raised at `at` after `printed` stopped messages were printed.
Raise(exc, at, printed) ==
    /\ exception' = exc
    /\ stopped_msgs' = stopped_msgs + printed + Unwind(exc, at).msgs
    /\ exit_status' = Unwind(exc, at).status
    /\ pc' = "exited"

\* parse_arguments, lines 102-132.
ParseArguments ==
    /\ pc = "parse"
    /\ MUTE_SOUNDS' = (IF args.mute THEN TRUE ELSE MUTE_SOUNDS)
    /\ pc' = "signal"
    /\ UNCHANGED <<config, SOUND, handler, pomodoro_count, timer, works_done,
                   sessions, notifier, ending>>

\* main, line 250.
InstallHandler ==
    /\ pc = "signal"
    /\ handler' = "handle_interrupt"
    /\ pc' = "sounds"
    /\ UNCHANGED <<config, MUTE_SOUNDS, SOUND, pomodoro_count, timer, works_done,
                   sessions, notifier, ending>>

\* Lines 258-295 with the assignment of line 270 given work_start's path.
SetupSoundsCrossed ==
    /\ pc = "sounds"
    /\ SOUND' = [s \in Slots |->
                   IF s = "work_end"
                   THEN (IF "work_end" \in env.sound_files THEN "work_start" ELSE SOUND[s])
                   ELSE (IF s \in env.sound_files THEN s ELSE SOUND[s])]
    /\ pomodoro_count' = 0
    /\ pc' = "work"
    /\ UNCHANGED <<config, MUTE_SOUNDS, handler, timer, works_done, sessions, notifier,
                   ending>>

\* main, lines 258-295: each asset found replaces its slot's bell.
SetupSounds ==
    /\ pc = "sounds"
    /\ SOUND' = [s \in Slots |-> IF s \in env.sound_files THEN s ELSE SOUND[s]]
    /\ pomodoro_count' = 0
    /\ pc' = "work"
    /\ UNCHANGED <<config, MUTE_SOUNDS, handler, timer, works_done, sessions, notifier,
                   ending>>

\* run_timer, lines 183-186: the call and the computation of end_time.
RunTimerEnter(minutes, kind) ==
    /\ session_type' = kind
    /\ duration_seconds' = minutes * SecondsPerMinute
    /\ now' = 0
    /\ end_time' = (minutes * SecondsPerMinute) * Res
    /\ remaining_seconds' = 0
    /\ frames' = 0
    /\ first_frame' = 0
    /\ by_one' = TRUE
    /\ bar' = NoBar
    /\ sessions' = Append(sessions, [kind |-> kind, after |-> works_done])
    /\ pc' = "notify_start"

\* Lines 301-303 without the increment of line 301.
MainWorkNoIncrement ==
    /\ pc = "work"
    /\ pomodoro_count < MaxPomodoros
    /\ pomodoro_count' = pomodoro_count
    /\ RunTimerEnter(args.work, "Work")
    /\ UNCHANGED <<config, MUTE_SOUNDS, SOUND, handler, works_done, notifier, ending>>

\* main, lines 301-303.
MainWork ==
    /\ pc = "work"
    /\ pomodoro_count < MaxPomodoros
    /\ pomodoro_count' = pomodoro_count + 1
    /\ RunTimerEnter(args.work, "Work")
    /\ UNCHANGED <<config, MUTE_SOUNDS, SOUND, handler, works_done, notifier, ending>>

\* main, lines 306-313: the modulo raises ZeroDivisionError for --pomodoros 0.
MainBreak ==
    /\ pc = "break"
    /\ IF args.pomodoros = 0
       THEN /\ Raise("ZeroDivisionError", "break", 0)
            /\ UNCHANGED <<timer, sessions, cancelled_at, sigint>>
       ELSE /\ RunTimerEnter(BreakMinutes(BreakKind(pomodoro_count, args.pomodoros)),
                             BreakKind(pomodoro_count, args.pomodoros))
            /\ UNCHANGED ending
    /\ UNCHANGED <<config, MUTE_SOUNDS, SOUND, handler, pomodoro_count, works_done,
                   notifier>>

\* One notifier event of run_timer: send_notification, the message, play_sound.
Notify(edge, next) ==
    /\ notify_calls' = notify_calls + 1
    /\ events' = Append(events, <<session_type, edge>>)
    /\ IF send_notification_raises(env)
       THEN /\ Raise("OSError", pc, 0)
            /\ UNCHANGED <<player_used, last_cue, sound_calls, cancelled_at, sigint>>
       ELSE /\ \E raises \in BOOLEAN :
                  last_cue' = play_sound(MUTE_SOUNDS, SOUND[SlotOf(session_type, edge)],
                                         env.players, raises)
            /\ player_used' = (player_used \/ last_cue'.player # "none")
            /\ sound_calls' = sound_calls + 1
            /\ pc' = next
            /\ UNCHANGED ending

\* run_timer without lines 190-200: no start notification, message or sound.
NotifyStartMissing ==
    /\ pc = "notify_start"
    /\ pc' = "pause"
    /\ UNCHANGED <<config, MUTE_SOUNDS, SOUND, handler, pomodoro_count, timer, works_done,
                   sessions, notifier, ending>>

\* run_timer, lines 190-200.
NotifyStart ==
    /\ pc = "notify_start"
    /\ Notify("start", "pause")
    /\ UNCHANGED <<config, MUTE_SOUNDS, SOUND, handler, pomodoro_count, timer, works_done,
                   sessions>>

\* run_timer, line 202.
Pause ==
    /\ pc = "pause"
    /\ \E lag \in Lags : now' = now + Res + lag
    /\ pc' = "tick"
    /\ UNCHANGED <<config, MUTE_SOUNDS, SOUND, handler, pomodoro_count, session_type,
                   duration_seconds, end_time, remaining_seconds, frames, first_frame,
                   by_one, bar, works_done, sessions, notifier, ending>>

\* The loop of lines 204-213 showing the seconds elapsed instead of those left.
TickElapsed ==
    /\ pc = "tick"
    /\ now < end_time
    /\ \E stall \in Stalls, lag \in Lags :
          /\ remaining_seconds' = IntSeconds(now + stall)
          /\ now' = now + stall + Res + lag
    /\ frames' = frames + 1
    /\ first_frame' = (IF frames = 0 THEN remaining_seconds' ELSE first_frame)
    /\ by_one' = (by_one /\ remaining_seconds' = duration_seconds - frames)
    /\ bar' = display_timer(remaining_seconds', duration_seconds)
    /\ UNCHANGED <<config, MUTE_SOUNDS, SOUND, handler, pc, pomodoro_count, session_type,
                   duration_seconds, end_time, works_done, sessions, notifier, ending>>

\* run_timer, lines 204-213: one turn of the loop.
Tick ==
    /\ pc = "tick"
    /\ now < end_time
    /\ \E stall \in Stalls, lag \in Lags :
          /\ remaining_seconds' = IntSeconds(end_time - (now + stall))
          /\ now' = now + stall + Res + lag
    /\ frames' = frames + 1
    /\ first_frame' = (IF frames = 0 THEN remaining_seconds' ELSE first_frame)
    /\ by_one' = (by_one /\ remaining_seconds' = duration_seconds - frames)
    /\ bar' = display_timer(remaining_seconds', duration_seconds)
    /\ UNCHANGED <<config, MUTE_SOUNDS, SOUND, handler, pc, pomodoro_count, session_type,
                   duration_seconds, end_time, works_done, sessions, notifier, ending>>

\* run_timer, lines 216-227, and the return to main.
Complete ==
    /\ pc = "tick"
    /\ ~(now < end_time)
    /\ works_done' = works_done + (IF session_type = "Work" THEN 1 ELSE 0)
    /\ Notify("end", ReturnTo(session_type))
    /\ UNCHANGED <<config, MUTE_SOUNDS, SOUND, handler, pomodoro_count, timer, sessions>>

Snapshot ==
    [taken |-> TRUE, pc |-> pc, sessions |-> Len(sessions), events |-> Len(events),
     frames |-> frames, left |-> end_time - now, count |-> pomodoro_count]

\* A handler that prints the message and returns, without sys.exit(0).
handle_interrupt_returns ==
    /\ stopped_msgs' = stopped_msgs + 1
    /\ cancelled_at' = Snapshot
    /\ sigint' = "handled"
    /\ UNCHANGED <<pc, exception, exit_status>>

\* A handler that prints the message and raises KeyboardInterrupt.
handle_interrupt_raises ==
    /\ Raise("KeyboardInterrupt", pc, 1)
    /\ cancelled_at' = Snapshot
    /\ sigint' = "handled"

\* handle_interrupt, lines 237-242: the message, then sys.exit(0).
handle_interrupt ==
    /\ Raise("SystemExit", pc, 1)
    /\ cancelled_at' = Snapshot
    /\ sigint' = "handled"

\* SIGINT: Python's default handler raises KeyboardInterrupt until line 250.
Interrupt ==
    /\ pc # "exited"
    /\ IF handler = "handle_interrupt"
       THEN handle_interrupt
       ELSE /\ Raise("KeyboardInterrupt", pc, 0)
            /\ UNCHANGED <<cancelled_at, sigint>>
    /\ UNCHANGED <<config, MUTE_SOUNDS, SOUND, handler, pomodoro_count, timer, works_done,
                   sessions, notifier>>

\* Where main is inside os.system: clear_screen (line 138) in display_timer
\* and at line 217, send_notification (lines 144 and 146) on macOS and Linux.
\* The C library's system() has the calling process ignore SIGINT until the
\* command has ended.
InOsSystem(at, host) ==
    /\ host.platform # "nt"
    /\ \/ at = "tick"
       \/ at \in {"notify_start", "tick"} /\ host.platform \in {"darwin", "linux"}

\* SIGINT while an os.system command runs: the signal is discarded.
SigintDropped ==
    /\ handler = "handle_interrupt"
    /\ InOsSystem(pc, env)
    /\ sigint' = "dropped"
    /\ UNCHANGED <<config, MUTE_SOUNDS, SOUND, handler, pc, pomodoro_count, timer,
                   works_done, sessions, notifier, stopped_msgs, exception, exit_status,
                   cancelled_at>>

Next ==
    \/ ParseArguments
    \/ InstallHandler
    \/ SetupSounds
    \/ MainWork
    \/ MainBreak
    \/ NotifyStart
    \/ Pause
    \/ Tick
    \/ Complete
    \/ Interrupt
    \/ SigintDropped

Spec == Init /\ [][Next]_vars

\* The program left alone: no SIGINT is ever sent, and it keeps taking steps.
RunNext ==
    \/ ParseArguments
    \/ InstallHandler
    \/ SetupSounds
    \/ MainWork
    \/ MainBreak
    \/ NotifyStart
    \/ Pause
    \/ Tick
    \/ Complete

LiveSpec == Init /\ [][RunNext]_vars /\ WF_vars(RunNext)

\* format_time on its own: called with any number of seconds.
FormatInit ==
    /\ args = MkArgs(1, 1, 1, 1, FALSE)
    /\ env = PlainHost(FALSE)
    /\ MUTE_SOUNDS = FALSE
    /\ SOUND = [s \in Slots |-> Bell]
    /\ handler = "default"
    /\ pc = "format_time"
    /\ pomodoro_count = 0
    /\ session_type = "none"
    /\ duration_seconds = 0
    /\ end_time = 0
    /\ now = 0
    /\ remaining_seconds \in 0 .. MaxFormatSeconds
    /\ frames = 0
    /\ first_frame = 0
    /\ by_one = TRUE
    /\ bar = NoBar
    /\ works_done = 0
    /\ sessions = <<>>
    /\ events = <<>>
    /\ notify_calls = 0
    /\ player_used = FALSE
    /\ last_cue = NoCue
    /\ stopped_msgs = 0
    /\ exception = "none"
    /\ exit_status = "none"
    /\ cancelled_at = NoSnapshot
    /\ sound_calls = 0
    /\ sigint = "none"

\* format_time(remaining_seconds), as display_timer calls it at line 177.
FormatTime ==
    /\ pc = "format_time"
    /\ bar' = [bar EXCEPT !.time = format_time(remaining_seconds)]
    /\ pc' = "formatted"
    /\ UNCHANGED <<config, MUTE_SOUNDS, SOUND, handler, pomodoro_count, session_type,
                   duration_seconds, end_time, now, remaining_seconds, frames,
                   first_frame, by_one, works_done, sessions, notifier, ending>>

FormatNext == FormatTime

FormatSpec == FormatInit /\ [][FormatNext]_vars

(* ------------------------------ claims -------------------------------- *)
\* The current session has printed its completed message.
SessionCompleted == Len(sessions) > 0 /\ Len(events) = 2 * Len(sessions)

\* The notifier events that the sessions entered so far have reached.
Boundaries ==
    2 * Len(sessions) - (CASE pc = "notify_start" -> 2
                           [] pc \in {"pause", "tick"} -> 1
                           [] OTHER -> 0)

WorksStarted == Cardinality({i \in 1 .. Len(sessions) : sessions[i].kind = "Work"})

\* C1: with pomodorosPerCycle = N > 0, the break that follows the k-th
\* completed Work session is a Long Break exactly when k mod N = 0 and a
\* Short Break otherwise, and no break comes before the first Work session.
C1_LongBreakEveryNth ==
    args.pomodoros > 0 =>
        \A i \in 1 .. Len(sessions) :
            sessions[i].kind # "Work" =>
                /\ sessions[i].after >= 1
                /\ sessions[i].kind =
                       (IF sessions[i].after % args.pomodoros = 0
                        THEN "Long Break" ELSE "Short Break")

\* A run with N = 3 that reached the Long Break after the third Work session
\* and the Short Break after the fourth.
C1_Witness ==
    /\ args.pomodoros = 3
    /\ Len(sessions) = 8
    /\ sessions[6] = [kind |-> "Long Break", after |-> 3]
    /\ sessions[8] = [kind |-> "Short Break", after |-> 4]

\* C2: the sessions main starts strictly alternate: the first is Work, a Work
\* session is followed by a break and a break by a Work session, so that no
\* two Work sessions and no two breaks run back to back.
C2_Alternates ==
    \A i \in 1 .. Len(sessions) :
        /\ (i % 2 = 1) <=> (sessions[i].kind = "Work")
        /\ sessions[i].kind \in Kinds
        /\ sessions[i].after = i \div 2

C2_Witness ==
    /\ Len(sessions) = 5
    /\ sessions[2].kind = "Short Break"
    /\ sessions[4].kind = "Long Break"
    /\ sessions[5].kind = "Work"

\* C3: a configuration with pomodorosPerCycle <= 0 is rejected before any
\* session starts: no notification is sent, no frame is rendered and no Work
\* session runs.
C3_CycleRejected ==
    args.pomodoros <= 0 =>
        /\ sessions = <<>>
        /\ notify_calls = 0
        /\ frames = 0

\* C4: a configuration with a duration <= 0 is rejected before any session
\* starts; run_timer is never entered with a non-positive duration and no
\* zero-length or negative-length session is reported started or completed.
C4_DurationRejected ==
    /\ (args.work <= 0 \/ args.short_break <= 0 \/ args.long_break <= 0) =>
           (sessions = <<>> /\ events = <<>>)
    /\ sessions # <<>> => duration_seconds > 0

\* The session in progress has time left.
SessionHasTimeLeft == pc \in {"notify_start", "pause", "tick"} /\ now < end_time

\* C5: a SIGINT sent while a session has time left stops the session: no
\* further tick, no completed event or end sound, no further session.
C5_SigintStops ==
    [][(sigint' # sigint /\ SessionHasTimeLeft) =>
           (pc' = "exited" /\ frames' = frames /\ events' = events
            /\ sessions' = sessions)]_vars

\* What holds of C5 when handle_interrupt is run: once SIGINT is handled in a
\* session that has time left, the session runs no further tick, emits no
\* completed event or end sound, and no further session is started.
C5_CancelStops ==
    (/\ cancelled_at.taken
     /\ cancelled_at.pc \in {"notify_start", "pause", "tick"}
     /\ cancelled_at.left > 0) =>
        /\ pc = "exited"
        /\ frames = cancelled_at.frames
        /\ Len(events) = cancelled_at.events
        /\ ~SessionCompleted
        /\ Len(sessions) = cancelled_at.sessions
        /\ pomodoro_count = cancelled_at.count

\* A session cancelled in its tick loop with frames shown and time left.
C5_Witness ==
    /\ cancelled_at.taken
    /\ cancelled_at.pc = "tick"
    /\ cancelled_at.left > 0
    /\ cancelled_at.frames > 0
    /\ cancelled_at.sessions = 3

\* C6 (as claimed): the cycle counter equals the number of Work sessions that
\* have finished, and is not advanced for a Work session that is still
\* running or that was interrupted.
C6_CountsFinished == pomodoro_count = works_done

\* C6 (amended): the cycle counter equals the number of Work sessions started:
\* it is one more than the number of finished Work sessions from the start of
\* a Work session until its completed message, also when that session is
\* interrupted, and equal to it otherwise.
C6_CountsStarted ==
    /\ pomodoro_count = WorksStarted
    /\ pomodoro_count - works_done =
           (IF Len(sessions) > 0 /\ sessions[Len(sessions)].kind = "Work"
               /\ ~SessionCompleted
            THEN 1 ELSE 0)

\* The second Work session is in its tick loop: two counted, one finished.
C6_Witness ==
    /\ pc = "tick"
    /\ session_type = "Work"
    /\ frames > 0
    /\ pomodoro_count = 2
    /\ works_done = 1

\* C7: an uninterrupted session of durationMinutes > 0 renders exactly
\* durationMinutes*60 + 1 frames, showing total, total-1, ..., 1, 0.  Stated
\* for the host whose sleeps are exact, where no frame can be skipped.
C7_FrameCount ==
    (SessionCompleted /\ duration_seconds > 0 /\ ~env.busy) =>
        /\ frames = duration_seconds + 1
        /\ first_frame = duration_seconds
        /\ by_one
        /\ remaining_seconds = 0

\* C8: every frame passed to display_timer has 0 <= remainingSeconds <=
\* totalSeconds, 0 <= filled <= 30 and 0 <= percentage <= 100, whatever time
\* passes between the loop test and the clock read.
C8_FrameInRange ==
    frames > 0 =>
        /\ 0 <= remaining_seconds /\ remaining_seconds <= duration_seconds
        /\ 0 <= bar.filled /\ bar.filled <= BarWidth
        /\ 0 <= bar.percent /\ bar.percent <= 100

\* C9: with the mute flag set no external audio player is ever run, while
\* send_notification is still called at every session start and completion.
C9_MuteOnlySound ==
    args.mute =>
        /\ ~player_used
        /\ last_cue = NoCue
        /\ pc # "exited" => notify_calls = Boundaries

\* A muted run on a host with every asset and a player, two sessions done.
C9_Witness ==
    /\ args.mute
    /\ env.sound_files = Slots
    /\ "aplay" \in env.players
    /\ pc = "work"
    /\ notify_calls = 4

\* C10: a failure of send_notification or of play_sound never propagates into
\* run_timer or main: no notifier exception ends the process.
C10_NotifierContained == exception # "OSError"

\* C11: on an interrupt sent after the handler is installed the process
\* prints a stopped message and exits with status 0, wherever the interrupt
\* arrives: in the tick loop, in the pause, during a notification, between
\* two sessions.
C11_InterruptExits ==
    sigint # "none" =>
        /\ pc = "exited"
        /\ exit_status = "0"
        /\ stopped_msgs >= 1

\* The decimal digits, for the expected text of C12.
DigitText == <<"0", "1", "2", "3", "4", "5", "6", "7", "8", "9">>
TwoDigits(n) == DigitText[(n \div 10) + 1] \o DigitText[(n % 10) + 1]

\* C12: for 0 <= s <= 5999, format_time(s) is the two-digit zero-padded value
\* of s div 60, a colon, and the two-digit zero-padded value of s mod 60; so
\* 125 gives "02:05", 0 gives "00:00" and 3599 gives "59:59".
C12_FormatTime ==
    (pc = "formatted" /\ remaining_seconds <= 5999) =>
        /\ bar.time = TwoDigits(remaining_seconds \div 60) \o ":"
                          \o TwoDigits(remaining_seconds % 60)
        /\ Len(bar.time) = 5
        /\ remaining_seconds = 125 => bar.time = "02:05"
        /\ remaining_seconds = 0 => bar.time = "00:00"
        /\ remaining_seconds = 3599 => bar.time = "59:59"

C12_Witness ==
    /\ pc = "formatted"
    /\ remaining_seconds = 3599
    /\ bar.time = "59:59"

\* C13: within a session the events come in this order: one session-started
\* notification and start cue, then all the frames, then one session-completed
\* notification and end cue; and a session starts only after the one before
\* it has completed, so that at most one session is active.
C13_EventOrder ==
    /\ [](/\ \A j \in 1 .. Len(events) :
                events[j] = <<sessions[(j + 1) \div 2].kind,
                              IF j % 2 = 1 THEN "start" ELSE "end">>
          /\ 2 * (Len(sessions) - 1) <= Len(events)
          /\ Len(events) <= 2 * Len(sessions)
          /\ notify_calls = Len(events)
          /\ exception # "OSError" => sound_calls = Len(events)
          /\ frames > 0 => Len(events) >= 2 * Len(sessions) - 1)
    /\ [][frames' > frames =>
              (Len(events) = 2 * Len(sessions) - 1 /\ events' = events)]_vars

\* The second session has completed after showing frames.
C13_Witness ==
    /\ SessionCompleted
    /\ Len(sessions) = 2
    /\ frames > 0
    /\ sound_calls = 4

\* The slot of the last notifier event.
LastSlot == SlotOf(events[Len(events)][1], events[Len(events)][2])

\* C14: each unmuted notifier event produces one audible cue: the external
\* player run with the slot's own asset when that asset was found at startup
\* and a player is available; the terminal bell when the asset is absent, no
\* player is found or the player raises.  Only the slot's own asset decides.
C14_CuePerSlot ==
    (events # <<>> /\ ~args.mute /\ exception # "OSError") =>
        IF LastSlot \in env.sound_files /\ env.players # {}
        THEN /\ last_cue.player = (IF "aplay" \in env.players THEN "aplay" ELSE "play")
             /\ last_cue.file = LastSlot
             /\ last_cue.bell = last_cue.raised
        ELSE last_cue = [NoCue EXCEPT !.bell = TRUE]

\* Only work_end has an asset: the Work session's start rang the bell, its end
\* ran the player.
C14_Witness ==
    /\ env.sound_files = {"work_end"}
    /\ env.players = {"play"}
    /\ ~args.mute
    /\ Len(events) = 2
    /\ last_cue = [player |-> "play", file |-> "work_end", bell |-> FALSE,
                   raised |-> FALSE]

\* C15: main ends (return, exit or uncaught exception) only as the result of
\* an external cancellation.
C15_OnlyCancellationEnds ==
    pc = "exited" => exception \in {"SystemExit", "KeyboardInterrupt"}

\* C16: while the clock advances and nobody cancels, every session of positive
\* duration that has started eventually completes, and after every completed
\* session the next one eventually starts.
C16_SessionsComplete ==
    /\ (pc = "notify_start" /\ duration_seconds > 0) ~> SessionCompleted
    /\ (SessionCompleted /\ pc \in {"work", "break"}
            /\ (pc = "work" => pomodoro_count < MaxPomodoros))
           ~> (pc = "notify_start")

\* The minutes configured for a kind of session.
ConfiguredMinutes(kind) ==
    CASE kind = "Work" -> args.work
      [] kind = "Short Break" -> args.short_break
      [] kind = "Long Break" -> args.long_break

\* C17: a session lasts the duration configured for its kind, 60 times the
\* minutes given, fixed when the session starts; the configured values are
\* never changed while the program runs.
C17_ConfiguredDuration ==
    [][/\ args' = args
       /\ Len(sessions') > Len(sessions) =>
              /\ duration_seconds' = SecondsPerMinute * ConfiguredMinutes(session_type')
              /\ end_time' - now' = Res * duration_seconds'
       /\ Len(sessions') = Len(sessions) =>
              /\ session_type' = session_type
              /\ duration_seconds' = duration_seconds
              /\ end_time' = end_time]_vars

\* A long break of two minutes shows frames where the short break has one.
C17_Witness ==
    /\ args.work = 2 /\ args.short_break = 1 /\ args.long_break = 2
    /\ Len(sessions) = 4
    /\ session_type = "Long Break"
    /\ duration_seconds = 120
    /\ frames > 0

\* The longest turn of the loop the host allows, in clock units.
MaxTick == Res + (IF env.busy THEN MaxLag + MaxStall ELSE 0)

\* C18: with a clock that never goes back, the seconds left shown by the
\* frames of a session never increase (values may be skipped), and the loop
\* never holds a session of positive duration past its end time by more than
\* one turn.
C18_NonIncreasing ==
    /\ [](pc = "tick" /\ duration_seconds > 0 => now - end_time < MaxTick)
    /\ [][(frames' = frames + 1 /\ frames > 0) =>
              (remaining_seconds' <= remaining_seconds /\ now < end_time)]_vars

\* Frames of a session on a loaded host that skipped a value.
C18_Witness ==
    /\ env.busy
    /\ frames >= 2
    /\ first_frame - remaining_seconds > frames - 1

\* C19: once the handler is installed, a cancellation that reaches it prints
\* the stopped message exactly once and ends the process through SystemExit
\* with status 0; no except branch prints the message again.
C19_OneStoppedMessage ==
    sigint = "handled" =>
        /\ pc = "exited"
        /\ stopped_msgs = 1
        /\ exception = "SystemExit"
        /\ exit_status = "0"

\* Cancelled inside both try blocks, in the loop of a running session.
C19_Witness ==
    /\ sigint = "handled"
    /\ cancelled_at.pc = "tick"
    /\ cancelled_at.frames > 0
    /\ stopped_msgs = 1

====
